---- MODULE Spec2Model ----
(***************************************************************************)
(* Model of harper's entry point (src/src/main.rs): the capture is parsed, *)
(* the optional time filters are applied, and the chosen subcommand runs.  *)
(* Two subcommands are modelled: count-urls (build the domain tree, print  *)
(* it with the chosen sort key) and dnssec-audit (sort the domains by      *)
(* their reversed names, look each one up, report).                        *)
(*                                                                         *)
(* Strings are sequences of byte values (46 is '.', 65..90 are 'A'..'Z',   *)
(* 97..122 are 'a'..'z', 48..57 are '0'..'9').  An Option is a sequence of *)
(* length 0 (None) or 1 (Some).                                            *)
(*                                                                         *)
(* The module `ops` (count_urls, filter, list_domains) is not part of the  *)
(* sources at hand; its operations are modelled from the design document   *)
(* and are marked as such where they are defined.                          *)
(***************************************************************************)
EXTENDS Integers, Sequences, FiniteSets, TLC

VARIABLES
    command,      \* args.command: "CountUrls" or "DNSSECAudit"
    sort,         \* count_args.sort: "alpha" or "frequency"
    merge_tld,    \* count_args.merge_tld
    before,       \* args.before: Option<time>
    after,        \* args.after: Option<time>
    contents,     \* the capture as read: sequence of [host, time]
    parsed,       \* the parsed document, mutated by the filters
    pc,           \* position in main()
    domain_tree,  \* the DomainNode tree: path |-> [count, children]
    idx,          \* build_domain_tree: index of the next entry
    skipped,      \* build_domain_tree: entries whose host is malformed
    output,       \* lines printed by print_tree
    domains,      \* DNSSEC audit: the sorted domain list
    di,           \* DNSSEC audit: index of the next domain
    lookups,      \* DNSSEC audit: what the resolver answered, per domain
    report        \* DNSSEC audit: lines printed

vars == <<command, sort, merge_tld, before, after, contents, parsed, pc,
          domain_tree, idx, skipped, output, domains, di, lookups, report>>

\* ------------------------------------------------------------------ bounds

\* Longest capture (number of entries).
MaxUrls == 3

\* Largest timestamp; 0 stands for a timestamp that does not parse.
MaxTime == 3

\* Most records in one DNS answer.
MaxRecords == 2

\* ------------------------------------------------------------- input sets

\* "x.org", "Y.org", "a.x.org", "t.co.uk", "" and "1.2.3.4"
TreeHosts ==
    { <<120, 46, 111, 114, 103>>,
      <<89, 46, 111, 114, 103>>,
      <<97, 46, 120, 46, 111, 114, 103>>,
      <<116, 46, 99, 111, 46, 117, 107>>,
      <<>>,
      <<49, 46, 50, 46, 51, 46, 52>> }

\* "x.org"
FilterHosts == { <<120, 46, 111, 114, 103>> }

\* "x.org", "a.x.org" and "t.co.uk"
AuditHosts ==
    { <<120, 46, 111, 114, 103>>,
      <<97, 46, 120, 46, 111, 114, 103>>,
      <<116, 46, 99, 111, 46, 117, 107>> }

RecordTypes == {"A", "RRSIG"}

SeqsUpTo(S, n) == UNION { [1..k -> S] : k \in 0..n }

Range(s) == { s[i] : i \in 1..Len(s) }

Perms(S) ==
    { p \in [1..Cardinality(S) -> S] :
        \A i, j \in 1..Cardinality(S) : p[i] = p[j] => i = j }

\* ---------------------------------------------------------------- strings

Rev(s) == [i \in 1..Len(s) |-> s[Len(s) + 1 - i]]

\* String's Ord: lexicographic on bytes.
RECURSIVE StrLess(_, _)
StrLess(a, b) ==
    IF b = <<>> THEN FALSE
    ELSE IF a = <<>> THEN TRUE
    ELSE IF Head(a) # Head(b) THEN Head(a) < Head(b)
    ELSE StrLess(Tail(a), Tail(b))

StrLeq(a, b) == ~StrLess(b, a)

ToLower(c) == IF c \in 65..90 THEN c + 32 ELSE c

LowerStr(s) == [i \in 1..Len(s) |-> ToLower(s[i])]

\* str::split('.'): the pieces between the dots, the empty string giving one
\* empty piece.
RECURSIVE Split(_)
Split(s) ==
    IF s = <<>> THEN << <<>> >>
    ELSE LET rest == Split(Tail(s))
         IN  IF Head(s) = 46
             THEN << <<>> >> \o rest
             ELSE << <<Head(s)>> \o Head(rest) >> \o Tail(rest)

\* ----------------------------------------------------- domain canonicalizer
\* (modelled from the design document, sections 4.1 and 8)

IsDigits(label) == label # <<>> /\ \A i \in 1..Len(label) : label[i] \in 48..57

\* A host that cannot be split into a top-level and a second-level label:
\* empty, with an empty label, with a single label, or an IP literal.
IsMalformed(host) ==
    LET ls == Split(host)
    IN  \/ Len(ls) < 2
        \/ \E i \in 1..Len(ls) : ls[i] = <<>>
        \/ \A i \in 1..Len(ls) : IsDigits(ls[i])

\* The labels of a well-formed host, case-normalized, top-level domain first.
Labels(host) ==
    LET ls == Split(host)
    IN  Rev([i \in 1..Len(ls) |-> LowerStr(ls[i])])

\* second-level label, '.', top-level label: "example" "com" is "example.com"
Fuse(tld, sld) == sld \o <<46>> \o tld

\* Canonicalize with the merge keeping the second-level label alone.
Canonicalize_DropTld(host, merge) ==
    LET ls == Labels(host)
    IN  IF merge
        THEN << ls[2] >> \o SubSeq(ls, 3, Len(ls))
        ELSE ls

\* The label path of a well-formed host; with merge_tld the two outermost
\* labels are one label.
Canonicalize(host, merge) ==
    LET ls == Labels(host)
    IN  IF merge
        THEN << Fuse(ls[1], ls[2]) >> \o SubSeq(ls, 3, Len(ls))
        ELSE ls

\* ------------------------------------------------------------- domain tree
\* A tree is a function from label paths (the root is <<>>) to nodes; a node
\* is [count, children], children being the keys of the node's map in the
\* order the map iterates them.

\* DomainNode::default(): count 0, no children.
DomainNodeDefault == (<<>> :> [count |-> 0, children |-> <<>>])

Prefixes(labels) == { SubSeq(labels, 1, k) : k \in 0..Len(labels) }

\* InsertPath counting the visit at the last node of the path only.
InsertPath_LeafOnly(tree, labels) ==
    LET onPath == Prefixes(labels)
        old(p) == IF p \in DOMAIN tree THEN tree[p]
                  ELSE [count |-> 0, children |-> <<>>]
        next(p) == labels[Len(p) + 1]
    IN  [p \in (DOMAIN tree) \cup onPath |->
            IF p \notin onPath THEN tree[p]
            ELSE [count |-> IF p = labels THEN old(p).count + 1 ELSE old(p).count,
                  children |->
                      IF Len(p) < Len(labels)
                         /\ next(p) \notin Range(old(p).children)
                      THEN Append(old(p).children, next(p))
                      ELSE old(p).children]]

\* The walk along `labels`: every node on the path is created if absent and
\* its count incremented, the root included; a new child is added to its
\* parent's map.
InsertPath(tree, labels) ==
    LET onPath == Prefixes(labels)
        old(p) == IF p \in DOMAIN tree THEN tree[p]
                  ELSE [count |-> 0, children |-> <<>>]
        next(p) == labels[Len(p) + 1]
    IN  [p \in (DOMAIN tree) \cup onPath |->
            IF p \notin onPath THEN tree[p]
            ELSE [count |-> old(p).count + 1,
                  children |->
                      IF Len(p) < Len(labels)
                         /\ next(p) \notin Range(old(p).children)
                      THEN Append(old(p).children, next(p))
                      ELSE old(p).children]]

\* The trees an insertion can leave: a map that received a new key iterates
\* its keys in an order that depends on the hasher, so any order of them.
InsertResults(tree, labels) ==
    LET t == InsertPath(tree, labels)
        grown == { p \in DOMAIN tree : t[p].children # tree[p].children }
    IN  IF grown = {} THEN {t}
        ELSE LET q == CHOOSE p \in grown : TRUE
             IN  { [t EXCEPT ![q].children = perm] :
                     perm \in Perms(Range(t[q].children)) }

\* build_domain_tree applied to a whole capture, with every map iterating in
\* insertion order.
RECURSIVE BuildTree(_, _)
BuildTree(entries, merge) ==
    IF entries = <<>> THEN DomainNodeDefault
    ELSE LET t == BuildTree(SubSeq(entries, 1, Len(entries) - 1), merge)
             h == entries[Len(entries)].host
         IN  IF IsMalformed(h) THEN t
             ELSE InsertPath(t, Canonicalize(h, merge))

\* ------------------------------------------------------------------ sorting

\* A sort key: a string or a one-element sequence holding a count, wrapped in
\* std::cmp::Reverse or not.
KeyLess(k1, k2) ==
    IF k1.rev THEN StrLess(k2.val, k1.val) ELSE StrLess(k1.val, k2.val)

\* AlphaKey wrapped in Reverse.
AlphaKey_Reversed(name, node) == [rev |-> TRUE, val |-> name]

\* |(name, _)| name.to_string()
AlphaKey(name, node) == [rev |-> FALSE, val |-> name]

\* |(_, node)| Reverse(node.count)
FrequencyKey(name, node) == [rev |-> TRUE, val |-> <<node.count>>]

\* The closure main() hands to print_tree for each strategy.
SortKey(strategy, name, node) ==
    IF strategy = "alpha" THEN AlphaKey(name, node) ELSE FrequencyKey(name, node)

\* slice::sort_by_key: stable, so an element stays behind the elements with
\* an equal key that precede it.  pairs is a sequence of [key, item].
RECURSIVE SortByKey(_)
SortByKey(pairs) ==
    IF pairs = <<>> THEN <<>>
    ELSE LET n == Len(pairs)
             sorted == SortByKey(SubSeq(pairs, 1, n - 1))
             x == pairs[n]
             k == Cardinality({ i \in 1..(n - 1) : ~KeyLess(x.key, sorted[i].key) })
         IN  SubSeq(sorted, 1, k) \o <<x>> \o SubSeq(sorted, k + 1, n - 1)

\* ------------------------------------------------------------ tree renderer
\* (modelled from the design document, section 4.3)

\* The children of the node at `path`, in map iteration order, sorted by key.
SortedChildren(tree, path, strategy) ==
    LET kids == tree[path].children
        pairs == [i \in 1..Len(kids) |->
                    [key |-> SortKey(strategy, kids[i], tree[Append(path, kids[i])]),
                     item |-> kids[i]]]
        sorted == SortByKey(pairs)
    IN  [i \in 1..Len(sorted) |-> sorted[i].item]

\* One line per node below `path` whose label is in `labels`, each followed
\* by the lines of its own children.
RECURSIVE PrintChildren(_, _, _, _)
PrintChildren(tree, path, labels, strategy) ==
    IF labels = <<>> THEN <<>>
    ELSE LET child == Append(path, Head(labels))
         IN  << [depth |-> Len(child),
                 label |-> Head(labels),
                 count |-> tree[child].count] >>
             \o PrintChildren(tree, child, SortedChildren(tree, child, strategy), strategy)
             \o PrintChildren(tree, path, Tail(labels), strategy)

\* print_tree(&tree, key): the root itself prints no line.
print_tree(tree, strategy) ==
    PrintChildren(tree, <<>>, SortedChildren(tree, <<>>, strategy), strategy)

\* -------------------------------------------------------------- time filter
\* (modelled from the option help texts in main.rs and the design document)

\* filter_by_time fails on a capture holding a timestamp that does not parse.
FilterFails(doc) == \E i \in 1..Len(doc) : doc[i].time = 0

\* filter_by_time(doc, dt, after): with after = false the entries after dt are
\* filtered out, with after = true the entries before dt.
KeepEntry(e, dt, isAfter) == IF isAfter THEN e.time >= dt ELSE e.time <= dt

filter_by_time(doc, dt, isAfter) ==
    SelectSeq(doc, LAMBDA e : KeepEntry(e, dt, isAfter))

\* ------------------------------------------------------------- domain list

\* list_domains: the hosts of the capture, each once, in order of first
\* occurrence.
RECURSIVE list_domains(_)
list_domains(doc) ==
    IF doc = <<>> THEN <<>>
    ELSE LET front == list_domains(SubSeq(doc, 1, Len(doc) - 1))
             h == doc[Len(doc)].host
         IN  IF h \in Range(front) THEN front ELSE Append(front, h)

\* ------------------------------------------------------------ DNSSEC audit

\* |x| x.chars().rev().collect::<String>()
ReversedKey(x) == [rev |-> FALSE, val |-> Rev(x)]

\* domains.sort_by_key(reversed name)
SortDomains(ds) ==
    LET pairs == [i \in 1..Len(ds) |-> [key |-> ReversedKey(ds[i]), item |-> ds[i]]]
        sorted == SortByKey(pairs)
    IN  [i \in 1..Len(sorted) |-> sorted[i].item]

\* What resolver.lookup can return: an error, or an answer of one or more
\* records.
LookupResults ==
    { [ok |-> FALSE, records |-> <<>>] }
    \cup { [ok |-> TRUE, records |-> r] :
             r \in SeqsUpTo(RecordTypes, MaxRecords) \ { <<>> } }

\* SigFound with `=` for `|=`: the last record decides.
SigFound_LastOnly(records) ==
    records # <<>> /\ records[Len(records)] = "RRSIG"

\* for record in resp.records() { sig_found |= record_type == RRSIG }
RECURSIVE SigFound(_)
SigFound(records) ==
    IF records = <<>> THEN FALSE
    ELSE SigFound(SubSeq(records, 1, Len(records) - 1))
         \/ records[Len(records)] = "RRSIG"

\* The line the loop body prints for one domain.
AuditLine(domain, resp) ==
    IF ~resp.ok THEN [text |-> "DNS Lookup Failed", domain |-> domain]
    ELSE IF SigFound(resp.records)
         THEN [text |-> "DNSSEC Signature found", domain |-> domain]
         ELSE [text |-> "Doesn't seem to use DNSSEC", domain |-> domain]

\* ---------------------------------------------------------------- the program

Entries(hosts, times) == [host : hosts, time : times]

None == <<>>

Some(x) == <<x>>

OptionTimes == { None } \cup { Some(t) : t \in 1..MaxTime }

\* The state after Args::parse and json::parse.
InitWith(cmd, s, m, b, a, doc) ==
    /\ command = cmd
    /\ sort = s
    /\ merge_tld = m
    /\ before = b
    /\ after = a
    /\ contents = doc
    /\ parsed = doc
    /\ pc = "filter_before"
    /\ domain_tree = DomainNodeDefault
    /\ idx = 1
    /\ skipped = 0
    /\ output = <<>>
    /\ domains = <<>>
    /\ di = 1
    /\ lookups = <<>>
    /\ report = <<>>

\* count-urls on captures of many hosts, no time window.
InitTree ==
    \E s \in {"alpha", "frequency"}, m \in BOOLEAN,
       doc \in SeqsUpTo(Entries(TreeHosts, {1}), MaxUrls) :
        InitWith("CountUrls", s, m, None, None, doc)

\* count-urls with a time window on captures of one host.
InitFilter ==
    \E b \in OptionTimes, a \in OptionTimes,
       doc \in SeqsUpTo(Entries(FilterHosts, 0..MaxTime), MaxUrls) :
        InitWith("CountUrls", "frequency", FALSE, b, a, doc)

\* dnssec-audit.
InitAudit ==
    \E doc \in SeqsUpTo(Entries(AuditHosts, {1}), MaxUrls) :
        InitWith("DNSSECAudit", "frequency", FALSE, None, None, doc)

Init == InitTree \/ InitFilter \/ InitAudit

\* if let Some(dt) = args.before { filter_by_time(.., dt, false).expect(..) }
FilterBefore ==
    /\ pc = "filter_before"
    /\ IF before = None
       THEN /\ pc' = "filter_after"
            /\ parsed' = parsed
       ELSE IF FilterFails(parsed)
            THEN /\ pc' = "panic"
                 /\ parsed' = parsed
            ELSE /\ pc' = "filter_after"
                 /\ parsed' = filter_by_time(parsed, before[1], FALSE)
    /\ UNCHANGED <<command, sort, merge_tld, before, after, contents,
                   domain_tree, idx, skipped, output, domains, di, lookups, report>>

\* FilterAfter passing `false` where `true` is meant.
FilterAfter_WrongFlag ==
    /\ pc = "filter_after"
    /\ IF after = None
       THEN /\ pc' = "dispatch"
            /\ parsed' = parsed
       ELSE IF FilterFails(parsed)
            THEN /\ pc' = "panic"
                 /\ parsed' = parsed
            ELSE /\ pc' = "dispatch"
                 /\ parsed' = filter_by_time(parsed, after[1], FALSE)
    /\ UNCHANGED <<command, sort, merge_tld, before, after, contents,
                   domain_tree, idx, skipped, output, domains, di, lookups, report>>

\* if let Some(dt) = args.after { filter_by_time(.., dt, true).expect(..) }
FilterAfter ==
    /\ pc = "filter_after"
    /\ IF after = None
       THEN /\ pc' = "dispatch"
            /\ parsed' = parsed
       ELSE IF FilterFails(parsed)
            THEN /\ pc' = "panic"
                 /\ parsed' = parsed
            ELSE /\ pc' = "dispatch"
                 /\ parsed' = filter_by_time(parsed, after[1], TRUE)
    /\ UNCHANGED <<command, sort, merge_tld, before, after, contents,
                   domain_tree, idx, skipped, output, domains, di, lookups, report>>

\* Commands::CountUrls: let mut domain_tree = DomainNode::default();
CountUrlsStart ==
    /\ pc = "dispatch"
    /\ command = "CountUrls"
    /\ domain_tree' = DomainNodeDefault
    /\ idx' = 1
    /\ skipped' = 0
    /\ pc' = IF parsed = <<>> THEN "print" ELSE "build"
    /\ UNCHANGED <<command, sort, merge_tld, before, after, contents, parsed,
                   output, domains, di, lookups, report>>

\* BuildInsert giving up at the first malformed host.
BuildInsert_AbortOnMalformed ==
    /\ pc = "build"
    /\ idx <= Len(parsed)
    /\ LET h == parsed[idx].host
       IN  IF IsMalformed(h)
           THEN /\ pc' = "print"
                /\ idx' = idx
                /\ domain_tree' = domain_tree
           ELSE /\ pc' = IF idx = Len(parsed) THEN "print" ELSE "build"
                /\ idx' = idx + 1
                /\ domain_tree' \in InsertResults(domain_tree, Canonicalize(h, merge_tld))
    /\ UNCHANGED <<command, sort, merge_tld, before, after, contents, parsed,
                   skipped, output, domains, di, lookups, report>>

\* build_domain_tree(&parsed, &mut domain_tree, .., merge_tld), one entry:
\* a malformed host is skipped and counted, any other host is inserted.
BuildInsert ==
    /\ pc = "build"
    /\ idx <= Len(parsed)
    /\ LET h == parsed[idx].host
       IN  IF IsMalformed(h)
           THEN /\ skipped' = skipped + 1
                /\ domain_tree' = domain_tree
           ELSE /\ skipped' = skipped
                /\ domain_tree' \in InsertResults(domain_tree, Canonicalize(h, merge_tld))
    /\ idx' = idx + 1
    /\ pc' = IF idx = Len(parsed) THEN "print" ELSE "build"
    /\ UNCHANGED <<command, sort, merge_tld, before, after, contents, parsed,
                   output, domains, di, lookups, report>>

\* PrintTree sorting every node's children in place while printing.
PrintTree_SortsInPlace ==
    /\ pc = "print"
    /\ output' = print_tree(domain_tree, sort)
    /\ domain_tree' = [p \in DOMAIN domain_tree |->
                          [domain_tree[p] EXCEPT
                              !.children = SortedChildren(domain_tree, p, sort)]]
    /\ pc' = "done"
    /\ UNCHANGED <<command, sort, merge_tld, before, after, contents, parsed,
                   idx, skipped, domains, di, lookups, report>>

\* PrintTree printing a line for the root before the tree.
PrintTree_RootLine ==
    /\ pc = "print"
    /\ output' = << [depth |-> 0, label |-> <<>>, count |-> domain_tree[<<>>].count] >>
                  \o print_tree(domain_tree, sort)
    /\ pc' = "done"
    /\ UNCHANGED <<command, sort, merge_tld, before, after, contents, parsed,
                   domain_tree, idx, skipped, domains, di, lookups, report>>

\* match count_args.sort { .. => print_tree(&domain_tree, key) }
PrintTree ==
    /\ pc = "print"
    /\ output' = print_tree(domain_tree, sort)
    /\ pc' = "done"
    /\ UNCHANGED <<command, sort, merge_tld, before, after, contents, parsed,
                   domain_tree, idx, skipped, domains, di, lookups, report>>

\* Commands::DNSSECAudit: list the domains and sort them.
AuditStart ==
    /\ pc = "dispatch"
    /\ command = "DNSSECAudit"
    /\ domains' = SortDomains(list_domains(parsed))
    /\ di' = 1
    /\ pc' = "resolver"
    /\ UNCHANGED <<command, sort, merge_tld, before, after, contents, parsed,
                   domain_tree, idx, skipped, output, lookups, report>>

\* Resolver::default().unwrap(): the system configuration is read, or the
\* program panics.
AuditResolver ==
    /\ pc = "resolver"
    /\ \E built \in BOOLEAN :
        pc' = IF ~built THEN "panic"
              ELSE IF domains = <<>> THEN "done" ELSE "audit"
    /\ UNCHANGED <<command, sort, merge_tld, before, after, contents, parsed,
                   domain_tree, idx, skipped, output, domains, di, lookups, report>>

\* One turn of `for domain in domains`: look the domain up, print its line.
AuditLookup ==
    /\ pc = "audit"
    /\ di <= Len(domains)
    /\ \E resp \in LookupResults :
        /\ lookups' = Append(lookups, resp)
        /\ report' = Append(report, AuditLine(domains[di], resp))
    /\ di' = di + 1
    /\ pc' = IF di = Len(domains) THEN "done" ELSE "audit"
    /\ UNCHANGED <<command, sort, merge_tld, before, after, contents, parsed,
                   domain_tree, idx, skipped, output, domains>>

Next ==
    \/ FilterBefore
    \/ FilterAfter
    \/ CountUrlsStart
    \/ BuildInsert
    \/ PrintTree
    \/ AuditStart
    \/ AuditResolver
    \/ AuditLookup

Spec == Init /\ [][Next]_vars

\* ================================================================== claims

IsPrefix(p, q) == Len(p) <= Len(q) /\ SubSeq(q, 1, Len(p)) = p

Max(S) == CHOOSE x \in S : \A y \in S : y <= x

\* The output line under which line i is printed: the nearest earlier line
\* one level up, 0 for a child of the root.
ParentLine(out, i) ==
    Max({0} \cup { j \in 1..(i - 1) : out[j].depth = out[i].depth - 1 })

\* Lines i and j are children of one node, i printed before j.
PrintedSiblings(out, i, j) ==
    /\ i < j
    /\ out[i].depth = out[j].depth
    /\ ParentLine(out, i) = ParentLine(out, j)

Rendered == command = "CountUrls" /\ pc = "done"

Built == command = "CountUrls" /\ pc \in {"build", "print", "done"}

\* The entries build_domain_tree has gone through.
Processed == SubSeq(parsed, 1, idx - 1)

WellFormed(doc) == \A i \in 1..Len(doc) : ~IsMalformed(doc[i].host)

\* The label path of every entry of doc, None for a malformed host.
LabelPaths(doc, merge) ==
    [i \in 1..Len(doc) |->
        IF IsMalformed(doc[i].host) THEN <<>>
        ELSE << Canonicalize(doc[i].host, merge) >>]

\* How many of the label paths pass through or end at p.
Through(paths, p) ==
    Cardinality({ i \in 1..Len(paths) :
                    paths[i] # <<>> /\ IsPrefix(p, paths[i][1]) })

\* C1: with the frequency strategy the children of every node are printed in
\* non-increasing order of count, children with equal counts in ascending
\* label order.
C1_FrequencyOrder ==
    (Rendered /\ sort = "frequency") =>
        \A i, j \in 1..Len(output) :
            PrintedSiblings(output, i, j) =>
                /\ output[i].count >= output[j].count
                /\ output[i].count = output[j].count =>
                       StrLeq(output[i].label, output[j].label)

\* C2: with the alphabetical strategy the labels of the printed children of
\* every node are non-decreasing under case-insensitive comparison, labels
\* equal ignoring case being ordered by their bytes.
C2_AlphabeticalOrder ==
    (Rendered /\ sort = "alpha") =>
        \A i, j \in 1..Len(output) :
            PrintedSiblings(output, i, j) =>
                /\ StrLeq(LowerStr(output[i].label), LowerStr(output[j].label))
                /\ LowerStr(output[i].label) = LowerStr(output[j].label) =>
                       StrLeq(output[i].label, output[j].label)

\* C2 happens: a host written with a capital was inserted, some map iterates
\* its keys out of byte order, and the tree was printed alphabetically.
C2_Witness ==
    /\ Rendered
    /\ sort = "alpha"
    /\ \E i \in 1..Len(parsed) :
        /\ ~IsMalformed(parsed[i].host)
        /\ LowerStr(parsed[i].host) # parsed[i].host
    /\ \E p \in DOMAIN domain_tree :
        /\ Len(domain_tree[p].children) >= 2
        /\ StrLess(domain_tree[p].children[2], domain_tree[p].children[1])

\* C3: every node's count is the number of inserted label paths that pass
\* through or end at it; the root's count is the number of hosts when all are
\* well-formed; no child's count exceeds its parent's.
C3_CountConservation ==
    Built =>
        /\ LET paths == LabelPaths(Processed, merge_tld)
           IN  \A p \in DOMAIN domain_tree :
                   domain_tree[p].count = Through(paths, p)
        /\ WellFormed(Processed) => domain_tree[<<>>].count = Len(Processed)
        /\ \A p \in DOMAIN domain_tree :
               \A i \in 1..Len(domain_tree[p].children) :
                   /\ Append(p, domain_tree[p].children[i]) \in DOMAIN domain_tree
                   /\ domain_tree[p].count >=
                          domain_tree[Append(p, domain_tree[p].children[i])].count

\* C3 happens: three well-formed hosts were inserted and some node has a
\* child visited less often than itself.
C3_Witness ==
    /\ Rendered
    /\ Len(parsed) >= 3
    /\ WellFormed(parsed)
    /\ \E p \in DOMAIN domain_tree :
        \E i \in 1..Len(domain_tree[p].children) :
            domain_tree[p].count >
                domain_tree[Append(p, domain_tree[p].children[i])].count

\* The merged label path that stands for an unmerged path of two or more
\* labels: "com", "example", rest becomes "example.com", rest.
Joined(p) == << p[2] \o <<46>> \o p[1] >> \o SubSeq(p, 3, Len(p))

Deep(t) == { p \in DOMAIN t : Len(p) >= 2 }

\* The merged tree is the unmerged one with the two top levels fused: the
\* roots agree, the unmerged nodes from the second level down and the merged
\* nodes below the root correspond one to one with equal counts and the same
\* children, and every top-level node has a child to fuse with.
MergeEquivalent(unm, mer) ==
    /\ unm[<<>>].count = mer[<<>>].count
    /\ \A p \in Deep(unm) :
        /\ Joined(p) \in DOMAIN mer
        /\ mer[Joined(p)].count = unm[p].count
        /\ Range(mer[Joined(p)].children) = Range(unm[p].children)
    /\ \A p, q \in Deep(unm) : Joined(p) = Joined(q) => p = q
    /\ \A q \in (DOMAIN mer) \ { <<>> } : \E p \in Deep(unm) : Joined(p) = q
    /\ \A p \in DOMAIN unm : Len(p) = 1 => unm[p].children # <<>>
    /\ Range(mer[<<>>].children) = { Joined(p)[1] : p \in Deep(unm) }

RECURSIVE AllOrders(_, _)
AllOrders(t, nodes) ==
    IF nodes = {} THEN {t}
    ELSE LET p == CHOOSE n \in nodes : TRUE
         IN  UNION { { [u EXCEPT ![p].children = perm] :
                         perm \in Perms(Range(t[p].children)) } :
                     u \in AllOrders(t, nodes \ {p}) }

\* C5: the printed lines depend only on the tree's labels and counts and on
\* the strategy, not on the order in which the maps iterate their keys.
C5_RenderDeterminism ==
    Rendered =>
        \A t \in AllOrders(domain_tree, DOMAIN domain_tree) :
            print_tree(t, sort) = output

\* C6: printing leaves the tree as the build left it.
C6_RenderFrame == [][pc = "print" => domain_tree' = domain_tree]_vars

\* C6 happens: a tree was printed some map of which iterates in another order
\* than the printed one.
C6_Witness ==
    /\ Rendered
    /\ output # <<>>
    /\ \E p \in DOMAIN domain_tree :
        domain_tree[p].children # SortedChildren(domain_tree, p, sort)

\* C7: a malformed host never stops the build: it is skipped and counted,
\* every other host is inserted, and processed + skipped is the number of
\* entries gone through, which is all of them at the end.
C7_MalformedTolerated ==
    /\ Built =>
        /\ domain_tree[<<>>].count + skipped = Len(Processed)
        /\ skipped = Cardinality({ i \in 1..Len(Processed) :
                                     IsMalformed(Processed[i].host) })
        /\ LET paths == LabelPaths(Processed, merge_tld)
           IN  \A i \in 1..Len(paths) :
                   paths[i] # <<>> =>
                       /\ paths[i][1] \in DOMAIN domain_tree
                       /\ domain_tree[paths[i][1]].count = Through(paths, paths[i][1])
    /\ (command = "CountUrls" /\ pc \in {"print", "done"}) => Processed = parsed
    /\ (command = "CountUrls" /\ pc = "panic") => idx = 1

\* C7 happens: a build that met a malformed host first and a well-formed one
\* after it has finished.
C7_Witness ==
    /\ Rendered
    /\ Len(parsed) >= 2
    /\ IsMalformed(parsed[1].host)
    /\ skipped >= 1
    /\ domain_tree[<<>>].count >= 1

\* C8: with no entry to build from the tree is a root without children and
\* nothing is printed, and the program does not fail.
C8_EmptyInput ==
    /\ (command = "CountUrls" /\ parsed = <<>> /\ pc \in {"print", "done"}) =>
        /\ DOMAIN domain_tree = { <<>> }
        /\ domain_tree[<<>>].children = <<>>
        /\ domain_tree[<<>>].count = 0
        /\ output = <<>>
    /\ (command = "CountUrls" /\ contents = <<>>) => pc # "panic"

\* C8 happens: count-urls has run to its end on an empty capture.
C8_Witness == Rendered /\ contents = <<>> /\ parsed = <<>>

InWindow(e) ==
    /\ before # None => e.time <= before[1]
    /\ after # None => e.time >= after[1]

DuringFilters == pc \in {"filter_before", "filter_after"}

\* C9: both filters are applied before the subcommand runs: while they run
\* nothing is built or printed; afterwards the document holds no entry
\* outside the window, so no count of the tree exceeds the number of entries
\* inside the window that pass through the node; with neither option the
\* document is the whole capture.
C9_FilterFirst ==
    /\ DuringFilters =>
        domain_tree = DomainNodeDefault /\ output = <<>> /\ report = <<>>
    /\ (~DuringFilters /\ pc # "panic") =>
        /\ \A i \in 1..Len(parsed) : InWindow(parsed[i])
        /\ LET inside == LabelPaths(SelectSeq(contents, InWindow), merge_tld)
           IN  \A p \in DOMAIN domain_tree :
                   domain_tree[p].count <= Through(inside, p)
        /\ (before = None /\ after = None) => parsed = contents
        /\ (before = None /\ after = None /\ Rendered) =>
               LET all == LabelPaths(contents, merge_tld)
               IN  \A p \in DOMAIN domain_tree :
                       domain_tree[p].count = Through(all, p)

\* C9 happens: with both options given some entries were filtered out and
\* the tree was built from the rest.
C9_Witness ==
    /\ Rendered
    /\ before # None
    /\ after # None
    /\ \E i \in 1..Len(contents) : contents[i].time > before[1]
    /\ \E i \in 1..Len(contents) : contents[i].time < after[1]
    /\ domain_tree[<<>>].count >= 1

Occurrences(s, x) == Cardinality({ i \in 1..Len(s) : s[i] = x })

\* C10: every listed domain gets one line, in ascending order of the
\* reversed names; the line says the lookup failed iff it failed, that a
\* signature was found iff it succeeded with an RRSIG record among the
\* answers, and that DNSSEC seems unused otherwise; a failed lookup does not
\* stop the loop.
C10_AuditReport ==
    (command = "DNSSECAudit" /\ pc \in {"audit", "done"}) =>
        /\ \A d \in Range(domains) \cup Range(list_domains(parsed)) :
               Occurrences(domains, d) = Occurrences(list_domains(parsed), d)
        /\ \A i, j \in 1..Len(domains) :
               i < j => StrLeq(Rev(domains[i]), Rev(domains[j]))
        /\ Len(report) = di - 1
        /\ Len(lookups) = di - 1
        /\ pc = "done" => Len(report) = Len(domains)
        /\ \A i \in 1..Len(report) :
            /\ report[i].domain = domains[i]
            /\ report[i].text \in {"DNS Lookup Failed", "DNSSEC Signature found",
                                   "Doesn't seem to use DNSSEC"}
            /\ report[i].text = "DNS Lookup Failed" <=> ~lookups[i].ok
            /\ report[i].text = "DNSSEC Signature found" <=>
                   (lookups[i].ok /\ "RRSIG" \in Range(lookups[i].records))

\* C10 happens: the audit has finished after a failed lookup followed by an
\* answer holding an RRSIG record before another record, on a list that the
\* sort reordered.
C10_Witness ==
    /\ command = "DNSSECAudit"
    /\ pc = "done"
    /\ Len(report) >= 2
    /\ ~lookups[1].ok
    /\ lookups[2].ok
    /\ Len(lookups[2].records) >= 2
    /\ lookups[2].records[1] = "RRSIG"
    /\ lookups[2].records[2] # "RRSIG"
    /\ domains # list_domains(parsed)

====
